---- MODULE Spec2Model ----
(***************************************************************************)
(* StackSet (src/src/lib.rs): a stack kept inside an open-addressing hash  *)
(* table, and has_cycle (src/src/main.rs), the traversal that uses it.     *)
(***************************************************************************)
EXTENDS Integers, Sequences, FiniteSets, TLC

\* ------------------------------------------------------------- bounds
\* Keys of the container specification are 1..NumKeys.
NumKeys == 3
\* A key's 64-bit hash (DefaultHasher::finish) is drawn from 0..MaxHash.
MaxHash == 11
\* The container specification stops pushing once count reaches MaxCount.
MaxCount == 7
\* has_cycle is run on every graph of at most MaxVertices vertices.
MaxVertices == 3
\* The long-run specification stops pushing once count reaches MaxDeepCount.
MaxDeepCount == 23

Keys == 1..NumKeys
HashVals == 0..MaxHash

\* ------------------------------------------------------------- values
\* Option<usize>::None (top_index, predecessor); Some(i) is i itself.
None == -1
\* A table slot holding None; an occupied slot is <<key, predecessor>>.
EmptySlot == <<>>
\* Option<T> as returned by top(): None is <<>>, Some(k) is <<k>>.
NoKey == <<>>
Some(k) == <<k>>

INITIAL_CAPACITY == 11

VARIABLES
    stack,      \* the StackSet: [top_index, count, capacity, table]
    hashOf,     \* key -> the 64-bit value DefaultHasher yields for it
    fault,      \* NoFault, or <<call, panic>> once a call has panicked
    model,      \* history: the keys pushed and not yet popped, oldest first
    pushes,     \* history: number of completed pushes
    pops,       \* history: number of completed pops
    g,          \* has_cycle: the Graph, [vertices, edges]
    seen,       \* has_cycle: seen, one flag a vertex
    pc,         \* has_cycle: where the call stands
    current_node, \* has_cycle: the vertex whose neighbors are being read
    idx,        \* has_cycle: position of neighbors.iter()
    result      \* has_cycle: the value returned, once pc = "done"

vars == <<stack, hashOf, fault, model, pushes, pops,
          g, seen, pc, current_node, idx, result>>
cycleVars == <<g, seen, pc, current_node, idx, result>>
history == <<model, pushes, pops>>

\* ------------------------------------------------------------- StackSet
new ==
    [top_index |-> None,
     count     |-> 0,
     capacity  |-> INITIAL_CAPACITY,
     table     |-> [i \in 0..(INITIAL_CAPACITY - 1) |-> EmptySlot]]

\* table.len()
TableLen(t) == Cardinality(DOMAIN t)

\* self.table[i] panics unless i < table.len()
InBounds(t, i) == i \in DOMAIN t

\* What a call does: the container afterwards, the value returned, and the
\* panic raised instead ("none" when the call returns).
Returns(s, r) == [st |-> s, ret |-> r, fault |-> "none"]
Panics(s, f) == [st |-> s, ret |-> "panic", fault |-> f]

\* is_empty read off count, as if count were the number of stored keys.
is_empty_by_count(s) == s.count = 0

is_empty(s) == s.top_index = None

\* top taking the entry off the stack, as pop does.
top_popping(s) ==
    IF s.top_index = None THEN Returns(s, NoKey)
    ELSE IF ~InBounds(s.table, s.top_index) THEN Panics(s, "index")
    ELSE IF s.table[s.top_index] = EmptySlot THEN Panics(s, "unwrap")
    ELSE Returns([s EXCEPT !.table[s.top_index] = EmptySlot,
                           !.top_index = s.table[s.top_index][2]],
                 Some(s.table[s.top_index][1]))

top(s) ==
    IF s.top_index = None THEN Returns(s, NoKey)
    ELSE IF ~InBounds(s.table, s.top_index) THEN Panics(s, "index")
    ELSE IF s.table[s.top_index] = EmptySlot THEN Panics(s, "unwrap")
    ELSE Returns(s, Some(s.table[s.top_index][1]))

\* pop without "self.top_index = entry.1".
pop_stale_top(s) ==
    IF s.top_index = None THEN Panics(s, "pop_empty")
    ELSE IF ~InBounds(s.table, s.top_index) THEN Panics(s, "index")
    ELSE IF s.table[s.top_index] = EmptySlot THEN Panics(s, "unwrap")
    ELSE Returns([s EXCEPT !.table[s.top_index] = EmptySlot],
                 s.table[s.top_index][1])

\* pop without "self.table[self.top_index.unwrap()] = None".
pop_keeps_slot(s) ==
    IF s.top_index = None THEN Panics(s, "pop_empty")
    ELSE IF ~InBounds(s.table, s.top_index) THEN Panics(s, "index")
    ELSE IF s.table[s.top_index] = EmptySlot THEN Panics(s, "unwrap")
    ELSE Returns([s EXCEPT !.top_index = s.table[s.top_index][2]],
                 s.table[s.top_index][1])

pop(s) ==
    IF s.top_index = None THEN Panics(s, "pop_empty")
    ELSE IF ~InBounds(s.table, s.top_index) THEN Panics(s, "index")
    ELSE IF s.table[s.top_index] = EmptySlot THEN Panics(s, "unwrap")
    ELSE LET entry == s.table[s.top_index]
         IN  Returns([s EXCEPT !.table[s.top_index] = EmptySlot,
                               !.top_index = entry[2]],
                     entry[1])

\* s.finish() as usize % self.table.len()
hash(s, h, key) == h[key] % TableLen(s.table)

\* The loop of contains: "true", "false", or "index" when table[hash] is
\* read past the end of the table.
RECURSIVE contains_loop(_, _, _, _)
contains_loop(t, h, offset, key) ==
    IF ~InBounds(t, h) THEN "index"
    ELSE IF t[h] = EmptySlot THEN "false"
    ELSE IF t[h][1] = key THEN "true"
    ELSE contains_loop(t, h + offset, offset + 2, key)

contains(s, h, key) ==
    LET r == contains_loop(s.table, hash(s, h, key), 1, key)
    IN  IF r = "index" THEN Panics(s, "index") ELSE Returns(s, r = "true")

\* The smallest prime greater than n.
IsPrime(n) == n > 1 /\ \A d \in 2..(n - 1) : n % d /= 0
RECURSIVE next_prime(_)
next_prime(n) == IF IsPrime(n + 1) THEN n + 1 ELSE next_prime(n + 1)

\* resize into a fresh table, the stored entries left behind.
resize_fresh(s) ==
    LET new_capacity == next_prime(s.capacity * 2)
    IN  [s EXCEPT !.table = [i \in 0..(new_capacity - 1) |-> EmptySlot],
                  !.capacity = new_capacity]

\* resize without "self.capacity = new_capacity as usize".
resize_keeps_capacity(s) ==
    LET new_capacity == next_prime(s.capacity * 2)
        len == TableLen(s.table) + (new_capacity - s.capacity)
    IN  [s EXCEPT !.table = [i \in 0..(len - 1) |->
                                IF InBounds(s.table, i) THEN s.table[i]
                                ELSE EmptySlot]]

resize(s) ==
    LET new_capacity == next_prime(s.capacity * 2)
        len == TableLen(s.table) + (new_capacity - s.capacity)
    IN  [s EXCEPT !.table = [i \in 0..(len - 1) |->
                                IF InBounds(s.table, i) THEN s.table[i]
                                ELSE EmptySlot],
                  !.capacity = new_capacity]

\* The loop of push_at: the first index that is empty, or that lies past
\* the end of the table (where table[hash] panics).
RECURSIVE push_at_loop(_, _, _)
push_at_loop(t, h, offset) ==
    IF ~InBounds(t, h) THEN h
    ELSE IF t[h] = EmptySlot THEN h
    ELSE push_at_loop(t, h + offset, offset + 2)

\* push_at storing None as the predecessor rather than top_index.
push_at_unlinked(s, h0, key) ==
    LET h == push_at_loop(s.table, h0, 1)
    IN  IF ~InBounds(s.table, h) THEN Panics(s, "index")
        ELSE LET s1 == [s EXCEPT !.table[h] = <<key, None>>,
                                 !.top_index = h,
                                 !.count = s.count + 1]
             IN  Returns(IF s1.count >= s1.capacity \div 2 THEN resize(s1)
                         ELSE s1,
                         "unit")

\* push_at writing at the hash it was given, without probing.
push_at_no_probe(s, h0, key) ==
    IF ~InBounds(s.table, h0) THEN Panics(s, "index")
    ELSE LET s1 == [s EXCEPT !.table[h0] = <<key, s.top_index>>,
                             !.top_index = h0,
                             !.count = s.count + 1]
         IN  Returns(IF s1.count >= s1.capacity \div 2 THEN resize(s1)
                     ELSE s1,
                     "unit")

\* push_at resizing on count > capacity / 2 rather than >=.
push_at_late_resize(s, h0, key) ==
    LET h == push_at_loop(s.table, h0, 1)
    IN  IF ~InBounds(s.table, h) THEN Panics(s, "index")
        ELSE LET s1 == [s EXCEPT !.table[h] = <<key, s.top_index>>,
                                 !.top_index = h,
                                 !.count = s.count + 1]
             IN  Returns(IF s1.count > s1.capacity \div 2 THEN resize(s1)
                         ELSE s1,
                         "unit")

\* push_at setting top_index to the hash it was given, not the probed one.
push_at_top_unprobed(s, h0, key) ==
    LET h == push_at_loop(s.table, h0, 1)
    IN  IF ~InBounds(s.table, h) THEN Panics(s, "index")
        ELSE LET s1 == [s EXCEPT !.table[h] = <<key, s.top_index>>,
                                 !.top_index = h0,
                                 !.count = s.count + 1]
             IN  Returns(IF s1.count >= s1.capacity \div 2 THEN resize(s1)
                         ELSE s1,
                         "unit")

push_at(s, h0, key) ==
    LET h == push_at_loop(s.table, h0, 1)
    IN  IF ~InBounds(s.table, h) THEN Panics(s, "index")
        ELSE LET s1 == [s EXCEPT !.table[h] = <<key, s.top_index>>,
                                 !.top_index = h,
                                 !.count = s.count + 1]
             IN  Returns(IF s1.count >= s1.capacity \div 2 THEN resize(s1)
                         ELSE s1,
                         "unit")

push(s, h, key) == push_at(s, hash(s, h, key), key)

\* ------------------------------------------------------------- calls
\* A panic ends the program: no call is made after it.
NoFault == <<"none", "none">>
Running == fault = NoFault
Outcome(op, o) == IF o.fault = "none" THEN NoFault ELSE <<op, o.fault>>

\* Keys are interchangeable, so they are numbered in the order of their
\* hashes.
Init ==
    /\ stack = new
    /\ hashOf \in {h \in [Keys -> HashVals] :
                        \A j, k \in Keys : j <= k => h[j] <= h[k]}
    /\ fault = NoFault
    /\ model = <<>>
    /\ pushes = 0
    /\ pops = 0
    /\ g = [vertices |-> 0, edges |-> <<>>]
    /\ seen = <<>>
    /\ pc = "idle"
    /\ current_node = 0
    /\ idx = 0
    /\ result = FALSE

OnStack(k) == \E i \in 1..Len(model) : model[i] = k

\* stack.push(k), for a key that is not on the stack
Push(k) ==
    /\ Running
    /\ ~OnStack(k)
    /\ stack.count < MaxCount
    /\ LET o == push(stack, hashOf, k)
       IN  /\ stack' = o.st
           /\ fault' = Outcome("push", o)
           /\ model' = IF o.fault = "none" THEN Append(model, k) ELSE model
           /\ pushes' = IF o.fault = "none" THEN pushes + 1 ELSE pushes
    /\ UNCHANGED <<hashOf, pops, cycleVars>>

\* stack.pop()
Pop ==
    /\ Running
    /\ LET o == pop(stack)
       IN  /\ stack' = o.st
           /\ fault' = Outcome("pop", o)
           /\ model' = IF o.fault = "none" /\ model /= <<>>
                       THEN SubSeq(model, 1, Len(model) - 1) ELSE model
           /\ pops' = IF o.fault = "none" THEN pops + 1 ELSE pops
    /\ UNCHANGED <<hashOf, pushes, cycleVars>>

\* stack.top()
Top ==
    /\ Running
    /\ LET o == top(stack)
       IN  /\ stack' = o.st
           /\ fault' = Outcome("top", o)
    /\ UNCHANGED <<hashOf, history, cycleVars>>

\* stack.is_empty()
IsEmpty ==
    /\ Running
    /\ is_empty(stack) \in BOOLEAN
    /\ UNCHANGED vars

\* stack.contains(k)
Contains(k) ==
    /\ Running
    /\ LET o == contains(stack, hashOf, k)
       IN  /\ stack' = o.st
           /\ fault' = Outcome("contains", o)
    /\ UNCHANGED <<hashOf, history, cycleVars>>

Next ==
    \/ \E k \in Keys : Push(k)
    \/ Pop
    \/ Top
    \/ IsEmpty
    \/ \E k \in Keys : Contains(k)

Spec == Init /\ [][Next]_vars

\* ------------------------------------------------------------- claims
Reverse(q) == [i \in 1..Len(q) |-> q[Len(q) + 1 - i]]
Occupied(s) == {i \in DOMAIN s.table : s.table[i] /= EmptySlot}
Live == {model[i] : i \in 1..Len(model)}
\* Two keys on the stack were hashed to the same slot of the initial table.
Collided ==
    \E i, j \in 1..Len(model) :
        i < j /\ hashOf[model[i]] % INITIAL_CAPACITY
                 = hashOf[model[j]] % INITIAL_CAPACITY

\* What pop() returns when it is called until the container is empty, at
\* most n times; Panicked marks a call that panics.
Panicked == None
RECURSIVE PopAll(_, _)
PopAll(s, n) ==
    IF n = 0 \/ is_empty(s) THEN <<>>
    ELSE LET o == pop(s)
         IN  IF o.fault /= "none" THEN <<Panicked>>
             ELSE <<o.ret>> \o PopAll(o.st, n - 1)

\* C1: LIFO law. In every state reached by pushes of distinct keys and
\* pops, whatever the hashes, calling pop until the container is empty
\* returns the keys pushed and not yet popped, the most recent first.
C1_LifoLaw == PopAll(stack, TableLen(stack.table)) = Reverse(model)

C1_Witness ==
    /\ Len(model) = 3
    /\ pops >= 1
    /\ Collided
    /\ stack.capacity > INITIAL_CAPACITY

\* C2: top() returns Some(k) for k the most recently pushed key not yet
\* popped, and None exactly when every pushed key has been popped.
C2_TopIsMostRecent ==
    /\ top(stack).fault = "none"
    /\ model /= <<>> => top(stack).ret = Some(model[Len(model)])
    /\ top(stack).ret = NoKey <=> pushes = pops

C2_Witness ==
    /\ Len(model) = 2
    /\ pops >= 2
    /\ Collided
    /\ top(stack).ret = Some(model[2])

\* C3: contains(k) returns true for every key k pushed and not yet popped,
\* in every reachable state, also after a resize.
C3_ContainsPresentKeys ==
    \A k \in Live : contains(stack, hashOf, k) = Returns(stack, TRUE)

\* C4: contains(k) returns false for every key k that is not on the stack.
C4_ContainsNoAbsentKey ==
    \A k \in Keys \ Live : contains(stack, hashOf, k) = Returns(stack, FALSE)

\* C5: no call other than pop on an empty container panics; no index
\* computed while probing leaves the table.
C5_OnlyPopOnEmptyFaults ==
    fault /= NoFault => fault = <<"pop", "pop_empty">>

\* C6: pop() panics when top_index is None, and only then.
C6_PopFaultsIffEmpty ==
    /\ pop(stack).fault = IF stack.top_index = None THEN "pop_empty" ELSE "none"
    /\ fault[1] = "pop" => fault[2] = "pop_empty" /\ stack.top_index = None

C6_Witness ==
    /\ fault = <<"pop", "pop_empty">>
    /\ pops >= 2
    /\ stack.capacity > INITIAL_CAPACITY

\* C7: is_empty() is true iff as many pops as pushes have completed.
C7_EmptyIffAllPopped == is_empty(stack) <=> pushes = pops

C7_Witness ==
    /\ is_empty(stack)
    /\ pushes = pops
    /\ pushes >= 3

\* C8: once every pushed key is popped the container is empty and so is
\* every slot of the table, and capacity is at least the initial one;
\* capacity never decreases.
C8_RoundTrip ==
    /\ [](/\ pushes = pops => is_empty(stack) /\ Occupied(stack) = {}
          /\ stack.capacity >= INITIAL_CAPACITY)
    /\ [][stack'.capacity >= stack.capacity]_vars

C8_Witness ==
    /\ pushes = pops
    /\ pushes >= 5
    /\ Occupied(stack) = {}
    /\ stack.capacity > INITIAL_CAPACITY

\* C10: count is the number of occupied slots, so top_index is None iff
\* count is 0.
C10_CountIsOccupied ==
    /\ stack.count = Cardinality(Occupied(stack))
    /\ stack.top_index = None <=> stack.count = 0

\* The slots met by following predecessor links from slot i, for at most n
\* links; the walk ends at None, or at an index that holds no entry.
RECURSIVE ChainFrom(_, _, _)
ChainFrom(s, i, n) ==
    IF i = None \/ n = 0 THEN <<>>
    ELSE IF InBounds(s.table, i) /\ s.table[i] /= EmptySlot
         THEN <<i>> \o ChainFrom(s, s.table[i][2], n - 1)
         ELSE <<i>>
ChainSlots(s) == ChainFrom(s, s.top_index, TableLen(s.table) + 1)
\* The keys read along the chain (None where the chain leaves the entries).
ChainKeys(s) ==
    [j \in 1..Len(ChainSlots(s)) |->
        LET i == ChainSlots(s)[j]
        IN  IF i \in Occupied(s) THEN s.table[i][1] ELSE None]

\* C11: chain well-formedness. top_index is None or names an occupied slot,
\* every occupied slot's predecessor is None or another occupied slot, and
\* the predecessor links from top_index visit every occupied slot exactly
\* once and end at None.
C11_ChainWellFormed ==
    LET c == ChainSlots(stack)
    IN  /\ stack.top_index = None \/ stack.top_index \in Occupied(stack)
        /\ \A i \in Occupied(stack) :
              \/ stack.table[i][2] = None
              \/ stack.table[i][2] \in Occupied(stack) \ {i}
        /\ {c[j] : j \in 1..Len(c)} = Occupied(stack)
        /\ Len(c) = Cardinality(Occupied(stack))
        /\ c /= <<>> => stack.table[c[Len(c)]][2] = None

C11_Witness ==
    /\ Len(ChainSlots(stack)) = 3
    /\ Collided
    /\ pops >= 1
    /\ stack.capacity > INITIAL_CAPACITY

\* A call of push, of pop, has completed in this step.
PushDone == pushes' = pushes + 1
PopDone == pops' = pops + 1

\* C15: push preserves the stack, with or without a resize: the keys along
\* the chain are the pushed key followed by the keys that were there, the
\* new slot's predecessor is the previous top_index, and no slot that was
\* occupied is changed or emptied.
C15_PushPreservesStack ==
    [][PushDone =>
        LET k == model'[Len(model')]
        IN  /\ ChainKeys(stack') = <<k>> \o ChainKeys(stack)
            /\ stack'.top_index \in Occupied(stack') \ Occupied(stack)
            /\ stack'.table[stack'.top_index] = <<k, stack.top_index>>
            /\ \A i \in Occupied(stack) : stack'.table[i] = stack.table[i]]_vars

C15_Witness ==
    /\ pushes = 5
    /\ pops = 2
    /\ stack.capacity > INITIAL_CAPACITY
    /\ Collided
    /\ ChainKeys(stack) = Reverse(model)

\* C16: pop on a non-empty container empties the slot named by top_index
\* and sets top_index to that slot's predecessor; capacity, the table
\* length and every other slot stay as they were.
C16_PopFrame ==
    [][PopDone =>
        /\ stack.top_index \in Occupied(stack)
        /\ stack'.table = [stack.table EXCEPT ![stack.top_index] = EmptySlot]
        /\ stack'.top_index = stack.table[stack.top_index][2]
        /\ stack'.capacity = stack.capacity
        /\ TableLen(stack'.table) = TableLen(stack.table)]_vars

C16_Witness ==
    /\ pops = 3
    /\ Len(model) = 2
    /\ stack.capacity > INITIAL_CAPACITY
    /\ Cardinality(Occupied(stack)) = 2

\* C17: is_empty, top and contains are read-only: the container after the
\* call is the container before it, so a step that completes no push and no
\* pop leaves table, top_index, count and capacity as they were.
C17_QueriesReadOnly ==
    /\ [](/\ top(stack).st = stack
          /\ \A k \in Keys : contains(stack, hashOf, k).st = stack)
    /\ [][~PushDone /\ ~PopDone => stack' = stack]_vars

C17_Witness ==
    /\ Len(model) = 2
    /\ stack.capacity > INITIAL_CAPACITY
    /\ top(stack).ret = Some(model[2])
    /\ \E k \in Live : contains(stack, hashOf, k) = Returns(stack, TRUE)
    /\ \E k \in Keys \ Live :
          contains(stack, hashOf, k) = Returns(stack, FALSE)

\* ------------------------------------------------------------- long runs
\* The container driven through several resizes, and with pushes of keys
\* that are already stored. All keys share one hash, so that every push
\* probes.
InitDeep ==
    /\ Init
    /\ \A j, k \in Keys : hashOf[j] = hashOf[k]

\* stack.push(k), for a key that is not on the stack
PushDeep(k) ==
    /\ Running
    /\ ~OnStack(k)
    /\ stack.count < MaxDeepCount
    /\ LET o == push(stack, hashOf, k)
       IN  /\ stack' = o.st
           /\ fault' = Outcome("push", o)
           /\ model' = IF o.fault = "none" THEN Append(model, k) ELSE model
           /\ pushes' = IF o.fault = "none" THEN pushes + 1 ELSE pushes
    /\ UNCHANGED <<hashOf, pops, cycleVars>>

\* stack.push(k), for a key that is on the stack; one duplicate at a time
PushDup(k) ==
    /\ Running
    /\ OnStack(k)
    /\ Cardinality({model[i] : i \in 1..Len(model)}) = Len(model)
    /\ stack.count < MaxDeepCount
    /\ LET o == push(stack, hashOf, k)
       IN  /\ stack' = o.st
           /\ fault' = Outcome("push", o)
           /\ model' = IF o.fault = "none" THEN Append(model, k) ELSE model
           /\ pushes' = IF o.fault = "none" THEN pushes + 1 ELSE pushes
    /\ UNCHANGED <<hashOf, pops, cycleVars>>

NextDeep ==
    \/ \E k \in Keys : PushDeep(k)
    \/ \E k \in Keys : PushDup(k)
    \/ Pop

SpecDeep == InitDeep /\ [][NextDeep]_vars

\* C13: the table length equals capacity, and capacity is a prime >= 11;
\* a new container has capacity 11, and each resize sets capacity to the
\* smallest prime greater than twice the capacity before it.
C13_CapacityIsPrime ==
    /\ stack.capacity = INITIAL_CAPACITY
    /\ [](/\ TableLen(stack.table) = stack.capacity
          /\ stack.capacity >= 11
          /\ \A d \in 2..(stack.capacity - 1) : stack.capacity % d /= 0)
    /\ [][stack'.capacity /= stack.capacity =>
            /\ stack'.capacity > 2 * stack.capacity
            /\ \A p \in (2 * stack.capacity + 1)..(stack'.capacity - 1) :
                  \E d \in 2..(p - 1) : p % d = 0]_vars

C13_Witness ==
    /\ stack.capacity = 97
    /\ stack.count = 23
    /\ TableLen(stack.table) = 97

\* C14: count < capacity in every reachable state, so that the table has
\* an empty slot: a push that brings count to capacity / 2 or more resizes
\* after the insertion.
C14_CountBelowCapacity ==
    /\ [](/\ stack.count < stack.capacity
          /\ Cardinality(Occupied(stack)) < TableLen(stack.table))
    /\ [][PushDone /\ stack'.count >= stack.capacity \div 2 =>
            /\ stack'.capacity > stack.capacity
            /\ stack'.top_index \in Occupied(stack')]_vars

C14_Witness ==
    /\ stack.count = 11
    /\ stack.capacity = 47
    /\ Len(model) >= 2

\* A push of a key that was already stored has completed in this step, and
\* the slots it has filled.
DupPushDone == PushDone /\ model'[Len(model')] \in Live
NewSlots == Occupied(stack') \ Occupied(stack)
OnChain(s) == {ChainSlots(s)[j] : j \in 1..Len(ChainSlots(s))}

\* The container after pop() has been called until it is empty, at most n
\* times.
RECURSIVE Drain(_, _)
Drain(s, n) ==
    IF n = 0 \/ is_empty(s) \/ pop(s).fault /= "none" THEN s
    ELSE Drain(pop(s).st, n - 1)

\* C18: a duplicate push leaves the duplicate entry in a slot that is not
\* on the predecessor chain from top_index and that no sequence of pops
\* empties.
C18_DuplicateIsDeadWeight ==
    [][DupPushDone =>
        \A i \in NewSlots :
            /\ i \notin OnChain(stack')
            /\ i \in Occupied(Drain(stack', TableLen(stack'.table)))]_vars

\* C18, as the code has it: a push of a stored key either panics on a probe
\* index outside the table and leaves the container as it was, or stores
\* the duplicate in a slot that was empty, with the previous top_index as
\* its predecessor, and makes it the top; the next pop returns the key and
\* empties that slot, and no occupied slot is ever off the chain.
C18_DuplicateIsOnTop ==
    /\ [](OnChain(stack) = Occupied(stack))
    /\ [][fault' /= NoFault => stack' = stack]_vars
    /\ [][DupPushDone =>
            LET k == model'[Len(model')]
                i == stack'.top_index
            IN  /\ NewSlots = {i}
                /\ i = push_at_loop(stack.table, hash(stack, hashOf, k), 1)
                /\ stack'.table[i] = <<k, stack.top_index>>
                /\ pop(stack').fault = "none"
                /\ pop(stack').ret = k
                /\ Occupied(pop(stack').st) = Occupied(stack)
                /\ Occupied(Drain(stack', TableLen(stack'.table))) = {}]_vars

\* Two occupied slots hold the key on top of the stack, and a pop has been
\* made since the container was new.
C18_Witness ==
    /\ Len(model) >= 3
    /\ \E i \in 1..(Len(model) - 1) : model[i] = model[Len(model)]
    /\ Cardinality({i \in Occupied(stack) :
                      stack.table[i][1] = model[Len(model)]}) = 2
    /\ stack.top_index \in Occupied(stack)
    /\ pops >= 1

\* ------------------------------------------------------------- has_cycle
\* DefaultHasher (SipHash-1-3, zero keys) of the usize values 0..7, reduced
\* modulo 11 * 23 * 47: only its residues modulo the table lengths are used.
SipHash13 == <<2649, 11662, 4465, 1724, 931, 984, 2648, 11325>>

\* Adjacency lists: ascending, without repetition.
Neighbors(n) ==
    {q \in UNION {[1..m -> 0..(n - 1)] : m \in 0..n} :
        \A i, j \in DOMAIN q : i < j => q[i] < q[j]}
Graphs(n) == {[vertices |-> n, edges |-> e] : e \in [0..(n - 1) -> Neighbors(n)]}

InitCycle ==
    /\ g \in UNION {Graphs(n) : n \in 0..MaxVertices}
    /\ stack = new
    /\ hashOf = [k \in 0..(MaxVertices - 1) |-> SipHash13[k + 1]]
    /\ fault = NoFault
    /\ model = <<>>
    /\ pushes = 0
    /\ pops = 0
    /\ seen = <<>>
    /\ pc = "start"
    /\ current_node = 0
    /\ idx = 0
    /\ result = FALSE

\* lines 9-14: the early return, new(), seen, push(0)
Start ==
    /\ pc = "start"
    /\ Running
    /\ IF g.vertices = 0
       THEN /\ pc' = "done"
            /\ result' = FALSE
            /\ UNCHANGED <<stack, fault, seen, history>>
       ELSE LET o == push(new, hashOf, 0)
            IN  /\ stack' = o.st
                /\ fault' = Outcome("push", o)
                /\ seen' = [v \in 0..(g.vertices - 1) |-> FALSE]
                /\ model' = IF o.fault = "none" THEN <<0>> ELSE model
                /\ pushes' = IF o.fault = "none" THEN 1 ELSE 0
                /\ pc' = "while"
                /\ UNCHANGED <<pops, result>>
    /\ UNCHANGED <<hashOf, g, current_node, idx>>

\* line 15: while !stack.is_empty()
While ==
    /\ pc = "while"
    /\ Running
    /\ IF is_empty(stack)
       THEN pc' = "done" /\ result' = FALSE
       ELSE pc' = "body" /\ UNCHANGED result
    /\ UNCHANGED <<stack, hashOf, fault, history, g, seen, current_node, idx>>

\* lines 16-21: the top of the stack; continue when it was seen
Body ==
    /\ pc = "body"
    /\ Running
    /\ LET o == top(stack)
       IN  IF o.fault /= "none"
           THEN fault' = <<"top", o.fault>>
                /\ UNCHANGED <<pc, seen, current_node, idx>>
           ELSE IF o.ret = NoKey
           THEN fault' = <<"has_cycle", "unwrap">>
                /\ UNCHANGED <<pc, seen, current_node, idx>>
           ELSE LET node == o.ret[1]
                IN  /\ fault' = fault
                    /\ current_node' = node
                    /\ IF seen[node]
                       THEN pc' = "while" /\ UNCHANGED <<seen, idx>>
                       ELSE /\ seen' = [seen EXCEPT ![node] = TRUE]
                            /\ idx' = 1
                            /\ pc' = "for"
    /\ UNCHANGED <<stack, hashOf, history, g, result>>

\* lines 22-27: one turn of the for loop over neighbors
For ==
    /\ pc = "for"
    /\ Running
    /\ LET neighbors == g.edges[current_node]
       IN  IF idx > Len(neighbors)
           THEN /\ pc' = "while"
                /\ UNCHANGED <<stack, fault, history, idx, result>>
           ELSE LET neighbor == neighbors[idx]
                    c == contains(stack, hashOf, neighbor)
                    o == push(stack, hashOf, neighbor)
                IN  IF c.fault /= "none"
                    THEN /\ fault' = <<"contains", c.fault>>
                         /\ UNCHANGED <<stack, history, pc, idx, result>>
                    ELSE IF c.ret
                    THEN /\ pc' = "done"
                         /\ result' = TRUE
                         /\ UNCHANGED <<stack, fault, history, idx>>
                    ELSE /\ stack' = o.st
                         /\ fault' = Outcome("push", o)
                         /\ model' = IF o.fault = "none"
                                     THEN Append(model, neighbor) ELSE model
                         /\ pushes' = IF o.fault = "none"
                                      THEN pushes + 1 ELSE pushes
                         /\ idx' = IF o.fault = "none" THEN idx + 1 ELSE idx
                         /\ UNCHANGED <<pops, pc, result>>
    /\ UNCHANGED <<hashOf, g, seen, current_node>>

NextCycle == Start \/ While \/ Body \/ For

SpecCycle == InitCycle /\ [][NextCycle]_vars

\* The call runs on: a step is taken whenever one is possible.
SpecCycleFair == SpecCycle /\ WF_vars(NextCycle)

\* A directed cycle of gr can be reached from vertex 0.
RECURSIVE Reach(_, _)
Reach(gr, S) ==
    LET T == S \cup {w \in 0..(gr.vertices - 1) :
                        \E v \in S : \E i \in DOMAIN gr.edges[v] :
                            gr.edges[v][i] = w}
    IN  IF T = S THEN S ELSE Reach(gr, T)
OnCycle(gr, v) ==
    \E i \in DOMAIN gr.edges[v] : v \in Reach(gr, {gr.edges[v][i]})
CycleFromZero(gr) ==
    gr.vertices > 0 /\ \E v \in Reach(gr, {0}) : OnCycle(gr, v)
Triangle == [vertices |-> 3, edges |-> [v \in 0..2 |-> <<(v + 1) % 3>>]]

\* C9: has_cycle returns true for every graph with a directed cycle that
\* can be reached from vertex 0, and false for the graph of 0 vertices.
C9_ReportsEveryCycle ==
    /\ CycleFromZero(g) ~> (pc = "done" /\ result)
    /\ g.vertices = 0 ~> (pc = "done" /\ ~result)

\* The two graphs of main: the cycle 0 -> 1 -> 2 -> 0 is reported, the
\* graph of 0 vertices is not.
C9_MainScenarios ==
    /\ g = Triangle ~> (pc = "done" /\ result)
    /\ g.vertices = 0 ~> (pc = "done" /\ ~result)

\* C12: has_cycle terminates: on every finite graph the call eventually
\* returns a boolean.
C12_HasCycleTerminates == <>(pc = "done")

\* A directed cycle of gr, reachable from vertex 0 or not.
AnyCycle(gr) == \E v \in 0..(gr.vertices - 1) : OnCycle(gr, v)

\* C19: has_cycle has no false positives: when it returns true the graph
\* has a directed cycle.
C19_NoFalsePositive == (pc = "done" /\ result) => AnyCycle(g)

====
